---- MODULE Spec2Model ----
(***************************************************************************)
(* A model of the RSS feed field analyzer (src/src/data/RSSFieldAnalyzer.ts)*)
(*                                                                         *)
(* analyzeRSSFeed is modelled as a staged state machine (Spec); the pure   *)
(* helpers it is built from (findBestField, findImageMapping,              *)
(* analyzeFieldPattern, extractAllFields, ...) are operators, and each has *)
(* a specification of its own that draws its inputs from bounded sets.     *)
(*                                                                         *)
(* Conventions                                                             *)
(*  - a text is a sequence of one-character strings, so that trimming,     *)
(*    lengths and the regular expressions of the source are computed;      *)
(*  - a JavaScript value is a record with a kind: "string" (s), "null",    *)
(*    "undefined", "object" (o) or "array" (a);                            *)
(*  - a JavaScript number that is not an integer (a reliability, an        *)
(*    average length) is the exact rational <<numerator, denominator>> in  *)
(*    lowest terms.  Within the bounds used here (denominators up to 7)    *)
(*    the IEEE double the source computes compares to the thresholds       *)
(*    30, 50, 70, 90 and 100 exactly as the rational does;                 *)
(*  - a JavaScript object used as a map is a function whose DOMAIN is its  *)
(*    set of keys.                                                         *)
(***************************************************************************)
EXTENDS Integers, Sequences, FiniteSets, TLC

(***************************************************************************)
(* Bounds                                                                  *)
(***************************************************************************)
\* largest number of items in a modelled feed document
MaxItems == 3
\* largest number of values folded through analyzeFieldPattern
MaxValues == 3
\* largest number of child elements of an item in the extraction specification
MaxElems == 2

(***************************************************************************)
(* Numbers                                                                 *)
(***************************************************************************)
RECURSIVE GCD(_, _)
GCD(a, b) == IF b = 0 THEN a ELSE GCD(b, a % b)

Abs(x) == IF x < 0 THEN 0 - x ELSE x

\* the rational n/d (d # 0) in lowest terms with a positive denominator
Rat(n, d) ==
  LET g == GCD(Abs(n), Abs(d))
      s == IF d < 0 THEN 0 - 1 ELSE 1
  IN  <<(s * n) \div g, (s * d) \div g>>

Num(k) == <<k, 1>>
RatAdd(x, y) == Rat(x[1] * y[2] + y[1] * x[2], x[2] * y[2])
RatMul(x, y) == Rat(x[1] * y[1], x[2] * y[2])
RatDiv(x, y) == Rat(x[1] * y[2], x[2] * y[1])
RatLT(x, y) == x[1] * y[2] < y[1] * x[2]
RatLE(x, y) == x[1] * y[2] <= y[1] * x[2]
RatGT(x, y) == RatLT(y, x)
RatGE(x, y) == RatLE(y, x)

Min(a, b) == IF a < b THEN a ELSE b
Max(a, b) == IF a > b THEN a ELSE b

(***************************************************************************)
(* JavaScript values                                                       *)
(***************************************************************************)
Null == [kind |-> "null"]
Undefined == [kind |-> "undefined"]
Str(s) == [kind |-> "string", s |-> s]
Obj(o) == [kind |-> "object", o |-> o]
Arr(a) == [kind |-> "array", a |-> a]

\* ToBoolean: null, undefined and the empty string are falsy, objects and
\* arrays are truthy
Truthy(v) == CASE v.kind \in {"null", "undefined"} -> FALSE
               [] v.kind = "string" -> v.s # <<>>
               [] OTHER -> TRUE

\* a || b
OrElse(a, b) == IF Truthy(a) THEN a ELSE b

\* typeof
TypeOf(v) == CASE v.kind = "string" -> "string"
               [] v.kind = "undefined" -> "undefined"
               [] OTHER -> "object"

(***************************************************************************)
(* Texts                                                                   *)
(***************************************************************************)
IsSpace(c) == c \in {" ", "\t", "\n"}

RECURSIVE TrimStart(_)
TrimStart(s) == IF s # <<>> /\ IsSpace(Head(s)) THEN TrimStart(Tail(s)) ELSE s

RECURSIVE TrimEnd(_)
TrimEnd(s) == IF s # <<>> /\ IsSpace(s[Len(s)])
                THEN TrimEnd(SubSeq(s, 1, Len(s) - 1)) ELSE s

\* String.prototype.trim
Trim(s) == TrimEnd(TrimStart(s))

\* String.prototype.startsWith
StartsWith(s, p) == Len(s) >= Len(p) /\ SubSeq(s, 1, Len(p)) = p

\* does p occur in s at position i
OccursAt(s, p, i) == i >= 1 /\ i + Len(p) - 1 <= Len(s)
                     /\ SubSeq(s, i, i + Len(p) - 1) = p

LowerChar(c) == CASE c = "I" -> "i" [] c = "M" -> "m" [] c = "G" -> "g"
                  [] c = "S" -> "s" [] c = "R" -> "r" [] c = "C" -> "c"
                  [] OTHER -> c

LowerText(s) == [i \in 1..Len(s) |-> LowerChar(s[i])]

(***************************************************************************)
(* Objects used as maps                                                    *)
(***************************************************************************)
EmptyMap == [k \in {} |-> Null]

\* obj[k] = v
Put(f, k, v) == [x \in (DOMAIN f) \cup {k} |-> IF x = k THEN v ELSE f[x]]

\* obj[k], undefined when the key is missing
Get(f, k) == IF k \in DOMAIN f THEN f[k] ELSE Undefined

\* ToBoolean of obj[k]
Has(f, k) == k \in DOMAIN f /\ Truthy(f[k])

(***************************************************************************)
(* The document tree                                                       *)
(* An element is [tag, text, attrs, kids]: its qualified name, its own     *)
(* character data, its attributes (a map from names to texts) and its      *)
(* child elements.  An item is the sequence of its child elements.         *)
(***************************************************************************)
NoAttrs == [k \in {} |-> <<>>]

Leaf(tag, text, attrs) == [tag |-> tag, text |-> text, attrs |-> attrs, kids |-> <<>>]

Node(tag, kids) == [tag |-> tag, text |-> <<>>, attrs |-> NoAttrs, kids |-> kids]

RECURSIVE ConcatTexts(_)
ConcatTexts(els) == IF els = <<>> THEN <<>>
                    ELSE Head(els).text \o ConcatTexts(Tail(els))

\* Node.textContent: the character data of the element and of its descendants
textContent(el) == el.text \o ConcatTexts(el.kids)

\* Element.getAttribute: null when the attribute is missing
getAttribute(el, name) == IF name \in DOMAIN el.attrs THEN Str(el.attrs[name]) ELSE Null

\* item.querySelectorAll("*"): every descendant element in document order
RECURSIVE Descendants(_)
Descendants(els) == IF els = <<>> THEN <<>>
                    ELSE <<Head(els)>> \o Head(els).kids \o Descendants(Tail(els))

\* Element.localName on the tag names of the modelled documents: the part
\* of the qualified name after the prefix
LocalName(tag) == CASE tag = "dc:creator" -> "creator"
                    [] tag = "dc:date" -> "date"
                    [] tag = "media:content" -> "content"
                    [] tag = "media:thumbnail" -> "thumbnail"
                    [] tag = "content:encoded" -> "encoded"
                    [] tag = "itunes:image" -> "image"
                    [] tag = "itunes:summary" -> "summary"
                    [] tag = "itunes:subtitle" -> "subtitle"
                    [] tag = "rdf:RDF" -> "RDF"
                    [] OTHER -> tag

\* the first element of a sequence whose local name is one of names, or <<>>
\* wrapped: the result is a sequence of zero or one element
RECURSIVE FirstTagged(_, _)
FirstTagged(els, names) ==
  IF els = <<>> THEN <<>>
  ELSE IF LocalName(Head(els).tag) \in names THEN <<Head(els)>>
  ELSE FirstTagged(Tail(els), names)

\* item.querySelector(selector), the selector being a list of type selectors.
\* A type selector is case-sensitive in an XML document and is matched
\* against the local name of an element: creator matches <dc:creator>, and
\* the escaped dc\:creator, a local name with a colon, matches no element.
querySelector(item, names) == FirstTagged(Descendants(item), names)

\* String.prototype.toLowerCase on the tag names of the modelled documents
ToLowerCase(tag) == CASE tag = "pubDate" -> "pubdate"
                      [] tag = "lastBuildDate" -> "lastbuilddate"
                      [] tag = "rdf:RDF" -> "rdf:rdf"
                      [] tag = "RDF" -> "rdf"
                      [] OTHER -> tag

\* tagName.toLowerCase().includes("media") on the tag names of the documents
IncludesMedia(tag) == ToLowerCase(tag) \in {"media:content", "media:thumbnail", "media"}

(***************************************************************************)
(* extractImagesFromHTML                                                   *)
(* /<img[^>]+src=["']([^"']+)["'][^>]*>/gi, matched from position i.       *)
(***************************************************************************)
IsQuote(c) == c \in {"\"", "'"}

\* the position of the first character from position i on that satisfies
\* isQuote / is ">", or 0 when there is none
RECURSIVE FirstQuoteFrom(_, _)
FirstQuoteFrom(s, i) == IF i > Len(s) THEN 0
                        ELSE IF IsQuote(s[i]) THEN i ELSE FirstQuoteFrom(s, i + 1)

RECURSIVE FirstGtFrom(_, _)
FirstGtFrom(s, i) == IF i > Len(s) THEN 0
                     ELSE IF s[i] = ">" THEN i ELSE FirstGtFrom(s, i + 1)

\* With "<img" at i and "src=" at p, the match is [start, end, src] when
\*   [^>]+ covers i+4..p-1 (non-empty, no ">"), a quote follows src=,
\*   ([^"']+) is the non-empty run up to the next quote q, and
\*   [^>]* runs from q+1 to the first ">".
ImgMatchVia(s, i, p) ==
  LET q == FirstQuoteFrom(s, p + 5)
      e == IF q = 0 THEN 0 ELSE FirstGtFrom(s, q + 1)
  IN  IF /\ OccursAt(LowerText(s), <<"<", "i", "m", "g">>, i)
         /\ p >= i + 5
         /\ \A k \in (i + 4)..(p - 1) : s[k] # ">"
         /\ OccursAt(LowerText(s), <<"s", "r", "c", "=">>, p)
         /\ p + 4 <= Len(s) /\ IsQuote(s[p + 4])
         /\ q >= p + 6
         /\ e # 0
      THEN <<[end |-> e, src |-> SubSeq(s, p + 5, q - 1)]>>
      ELSE <<>>

\* the match starting at i: [^>]+ is greedy, so the last src= that works wins
ImgMatchAt(s, i) ==
  LET ps == {p \in 1..Len(s) : ImgMatchVia(s, i, p) # <<>>}
  IN  IF ps = {} THEN <<>>
      ELSE ImgMatchVia(s, i, CHOOSE p \in ps : \A r \in ps : r <= p)

\* the exec loop: the leftmost match from position i on, then on from its end
RECURSIVE ImagesFrom(_, _)
ImagesFrom(s, i) ==
  IF i > Len(s) THEN <<>>
  ELSE LET m == ImgMatchAt(s, i)
       IN  IF m = <<>> THEN ImagesFrom(s, i + 1)
           ELSE <<[src |-> m[1].src]>> \o ImagesFrom(s, m[1].end + 1)

\* the images of an HTML text, in order (alt, width and height are not
\* modelled: nothing in the analyzer reads them)
extractImagesFromHTML(html) == ImagesFrom(html, 1)

(***************************************************************************)
(* extractAllFields                                                        *)
(***************************************************************************)
standardFields == <<"title", "link", "description", "pubDate", "published",
                    "updated", "summary", "content", "author", "creator",
                    "category", "guid", "id", "comments", "source">>

\* the selectors of namespaceElements with the field name each one yields,
\* selector.replace("\\:", "_").split(",")[0]
namespaceElements ==
  << [names |-> {"content:encoded", "content"}, field |-> "content_encoded"],
     [names |-> {"dc:creator", "creator"},      field |-> "dc_creator"],
     [names |-> {"dc:date", "date"},            field |-> "dc_date"],
     [names |-> {"media:content", "media"},     field |-> "media_content"],
     [names |-> {"media:thumbnail"},            field |-> "media_thumbnail"],
     [names |-> {"enclosure"},                  field |-> "enclosure"],
     [names |-> {"itunes:image"},               field |-> "itunes_image"],
     [names |-> {"itunes:summary"},             field |-> "itunes_summary"],
     [names |-> {"itunes:subtitle"},            field |-> "itunes_subtitle"] >>

\* standardFields.forEach from index i on: the trimmed text of the first match
RECURSIVE StandardFieldsFrom(_, _, _)
StandardFieldsFrom(item, fields, i) ==
  IF i > Len(standardFields) THEN fields
  ELSE LET element == querySelector(item, {standardFields[i]})
       IN  StandardFieldsFrom(item,
             IF element # <<>>
               THEN Put(fields, standardFields[i], Str(Trim(textContent(element[1]))))
               ELSE fields,
             i + 1)

\* the link element re-resolved: href || textContent, and rel and type as
\* getAttribute returns them
LinkFields(item, fields) ==
  LET linkEl == querySelector(item, {"link"})
  IN  IF linkEl # <<>>
        THEN Put(Put(Put(fields,
               "link", OrElse(getAttribute(linkEl[1], "href"), Str(textContent(linkEl[1])))),
               "link_rel", getAttribute(linkEl[1], "rel")),
               "link_type", getAttribute(linkEl[1], "type"))
        ELSE fields

\* the value recorded for a matched namespaced element
NamespaceValue(element) ==
  IF ToLowerCase(element.tag) = "enclosure"
    THEN Obj([url |-> getAttribute(element, "url"),
              type |-> getAttribute(element, "type"),
              length |-> getAttribute(element, "length")])
  ELSE IF IncludesMedia(element.tag)
    THEN Obj([url |-> getAttribute(element, "url"),
              medium |-> getAttribute(element, "medium"),
              width |-> getAttribute(element, "width"),
              height |-> getAttribute(element, "height"),
              type |-> getAttribute(element, "type")])
  ELSE OrElse(Str(Trim(textContent(element))), getAttribute(element, "url"))

\* namespaceElements.forEach from index i on
RECURSIVE NamespaceFieldsFrom(_, _, _)
NamespaceFieldsFrom(item, fields, i) ==
  IF i > Len(namespaceElements) THEN fields
  ELSE LET element == querySelector(item, namespaceElements[i].names)
       IN  NamespaceFieldsFrom(item,
             IF element # <<>>
               THEN Put(fields, namespaceElements[i].field, NamespaceValue(element[1]))
               ELSE fields,
             i + 1)

\* the body of the deep scan for one element
DeepScanOne(fields, el) ==
  LET tagName == ToLowerCase(el.tag)
      text == Trim(textContent(el))
      withText == Put(fields, "auto_" \o tagName, Str(text))
  IN  IF ~Has(fields, tagName) /\ text # <<>> /\ Len(el.kids) = 0
        THEN IF DOMAIN el.attrs # {}
               THEN Put(withText, "auto_" \o tagName \o "_attrs", Obj(el.attrs))
               ELSE withText
        ELSE fields

\* allElements.forEach
RECURSIVE DeepScanFrom(_, _)
DeepScanFrom(els, fields) ==
  IF els = <<>> THEN fields
  ELSE DeepScanFrom(Tail(els), DeepScanOne(fields, Head(els)))

\* the images of the richest content field, recorded when there is at least one
ImageFields(fields) ==
  IF Has(fields, "description") \/ Has(fields, "content") \/ Has(fields, "content_encoded")
    THEN LET contentToScan == OrElse(Get(fields, "content_encoded"),
                                OrElse(Get(fields, "content"), Get(fields, "description")))
             \* a value that is not a string is coerced to a text without images
             images == IF contentToScan.kind = "string"
                         THEN extractImagesFromHTML(contentToScan.s) ELSE <<>>
         IN  IF Len(images) > 0 THEN Put(fields, "extracted_images", Arr(images))
             ELSE fields
    ELSE fields

\* extractAllFields(item, deepScan): the ItemFields of one item
extractAllFields(item, deepScan) ==
  LET std == StandardFieldsFrom(item, EmptyMap, 1)
      lnk == LinkFields(item, std)
      ns == NamespaceFieldsFrom(item, lnk, 1)
      deep == IF deepScan THEN DeepScanFrom(Descendants(item), ns) ELSE ns
  IN  ImageFields(deep)

(***************************************************************************)
(* analyzeFieldPattern                                                     *)
(***************************************************************************)
\* /<[^>]+>/.test(s)
TestHTML(s) == \E i \in 1..Len(s) : \E j \in (i + 2)..Len(s) :
                 /\ s[i] = "<" /\ s[j] = ">"
                 /\ \A k \in (i + 1)..(j - 1) : s[k] # ">"

\* /https?:\/\/[^\s]+/.test(s)
TestURL(s) == \E i \in 1..Len(s) :
                \/ /\ OccursAt(s, <<"h", "t", "t", "p", ":", "/", "/">>, i)
                   /\ i + 7 <= Len(s) /\ ~IsSpace(s[i + 7])
                \/ /\ OccursAt(s, <<"h", "t", "t", "p", "s", ":", "/", "/">>, i)
                   /\ i + 8 <= Len(s) /\ ~IsSpace(s[i + 8])

\* the texts of the modelled documents that new Date(str) parses to a date
DateTexts == { <<"2", "0", "2", "4", "-", "0", "1", "-", "0", "2">>,
               <<"2", "0", "2", "4">> }

\* isValidDate(str): new Date(str) is not an invalid date
isValidDate(str) == str \in DateTexts

\* a pattern that has seen no value
NewPattern == [types |-> {}, formats |-> {}, hasHTML |-> FALSE, hasURL |-> FALSE,
               hasDate |-> FALSE, avgLength |-> Num(0), samples |-> 0]

\* existingPattern || { ... }; a missing pattern is the empty sequence
PatternOrNew(existingPattern) ==
  IF existingPattern = <<>> THEN NewPattern ELSE existingPattern[1]

\* analyzeFieldPattern(value, existingPattern)
analyzeFieldPattern(value, existingPattern) ==
  LET pattern == PatternOrNew(existingPattern)
      isStr == TypeOf(value) = "string"
      isObj == TypeOf(value) = "object"
      html == isStr /\ TestHTML(value.s)
      url == isStr /\ TestURL(value.s)
      date == isStr /\ isValidDate(value.s)
  IN  [types |-> pattern.types \cup (IF isStr THEN {"string"} ELSE {})
                               \cup (IF isObj THEN {"object"} ELSE {}),
       formats |-> pattern.formats \cup (IF html THEN {"html"} ELSE {})
                                   \cup (IF url THEN {"url"} ELSE {})
                                   \cup (IF date THEN {"date"} ELSE {})
                                   \cup (IF isObj THEN {"structured"} ELSE {}),
       hasHTML |-> pattern.hasHTML \/ html,
       hasURL |-> pattern.hasURL \/ url,
       hasDate |-> pattern.hasDate \/ date,
       avgLength |-> IF isStr
                       THEN RatDiv(RatAdd(RatMul(pattern.avgLength, Num(pattern.samples)),
                                          Num(Len(value.s))),
                                   Num(pattern.samples + 1))
                       ELSE pattern.avgLength,
       samples |-> pattern.samples + 1]

(***************************************************************************)
(* detectFeedType                                                          *)
(* A document is [parseError, tags, version, itemTag, items, namespaces,   *)
(* characterSet]: tags is the set of element names that occur in it        *)
(* outside its items, version the version attribute of its rss element (a  *)
(* sequence of zero or one string), itemTag the name of its item elements. *)
(***************************************************************************)
\* `rss${version || "2.0"}`, "atom", "rss1.0" or "unknown"
detectFeedType(doc) ==
  LET names == {LocalName(t) : t \in doc.tags}
  IN  IF "rss" \in names
        THEN "rss" \o (IF doc.version # <<>> /\ doc.version[1] # "" THEN doc.version[1]
                       ELSE "2.0")
      ELSE IF "feed" \in names THEN "atom"
      ELSE IF names \cap {"rdf:RDF", "RDF"} # {} THEN "rss1.0"
      ELSE "unknown"

\* extractNamespaces(doc): the prefixes declared on the root element
extractNamespaces(doc) == doc.namespaces

(***************************************************************************)
(* analyzeFeedStructure                                                    *)
(***************************************************************************)
\* Math.min(sampleSize, itemCount)
SamplesToAnalyze(sampleSize, itemCount) == Min(sampleSize, itemCount)

\* the accumulators of the sampling loop before the first item
NoTally == [allFields |-> {}, fieldOccurrences |-> EmptyMap,
            fieldSamples |-> EmptyMap, fieldPatterns |-> EmptyMap,
            items |-> <<>>]

\* the body of the sampling loop for the item of index i with fields itemFields
TallyItem(t, i, itemFields, deepScan) ==
  LET keys == DOMAIN itemFields
      seen == t.allFields \cup keys
      oldSamples(f) == IF f \in DOMAIN t.fieldSamples THEN t.fieldSamples[f] ELSE <<>>
      oldPattern(f) == IF f \in DOMAIN t.fieldPatterns THEN <<t.fieldPatterns[f]>> ELSE <<>>
      patterned == {f \in keys : deepScan /\ Truthy(itemFields[f])}
  IN  [allFields |-> seen,
       fieldOccurrences |->
         [f \in seen |-> (IF f \in DOMAIN t.fieldOccurrences THEN t.fieldOccurrences[f] ELSE 0)
                         + (IF f \in keys THEN 1 ELSE 0)],
       fieldSamples |->
         [f \in seen |-> IF f \in keys /\ Len(oldSamples(f)) < 3 /\ Truthy(itemFields[f])
                           THEN Append(oldSamples(f), itemFields[f])
                           ELSE oldSamples(f)],
       fieldPatterns |->
         [f \in (DOMAIN t.fieldPatterns) \cup patterned |->
            IF f \in patterned THEN analyzeFieldPattern(itemFields[f], oldPattern(f))
            ELSE t.fieldPatterns[f]],
       items |-> Append(t.items, [index |-> i, fields |-> itemFields,
                                  fieldCount |-> Cardinality(keys)])]

\* for (let i = 0; i < samplesToAnalyze; i++), from index i on
RECURSIVE SampleLoop(_, _, _, _, _)
SampleLoop(items, i, samplesToAnalyze, deepScan, t) ==
  IF i < samplesToAnalyze
    THEN SampleLoop(items, i + 1, samplesToAnalyze, deepScan,
                    TallyItem(t, i, extractAllFields(items[i + 1], deepScan), deepScan))
    ELSE t

\* a variant whose divisor is off by one
ReliabilityOffByOne(occurrences, samplesToAnalyze) ==
  RatMul(RatDiv(Num(occurrences), Num(samplesToAnalyze + 1)), Num(100))

\* (fieldOccurrences[field] / samplesToAnalyze) * 100
Reliability(occurrences, samplesToAnalyze) ==
  RatMul(RatDiv(Num(occurrences), Num(samplesToAnalyze)), Num(100))

\* doc.querySelectorAll(feedType === "atom" ? "entry" : "item")
ItemsOf(doc, feedType) ==
  IF doc.itemTag = (IF feedType = "atom" THEN "entry" ELSE "item") THEN doc.items ELSE <<>>

\* analyzeFeedStructure for a document that parsed (channelInfo is not
\* modelled: no stage reads it)
analyzeFeedStructure(doc, sampleSize, deepScan) ==
  LET feedType == detectFeedType(doc)
      items == ItemsOf(doc, feedType)
      itemCount == Len(items)
      samplesToAnalyze == SamplesToAnalyze(sampleSize, itemCount)
      t == SampleLoop(items, 0, samplesToAnalyze, deepScan, NoTally)
  IN  [feedType |-> feedType,
       itemCount |-> itemCount,
       samplesAnalyzed |-> samplesToAnalyze,
       uniqueFields |-> t.allFields,
       fieldReliability |->
         [f \in t.allFields |-> Reliability(t.fieldOccurrences[f], samplesToAnalyze)],
       fieldSamples |-> t.fieldSamples,
       fieldPatterns |-> t.fieldPatterns,
       items |-> t.items,
       namespaces |-> extractNamespaces(doc),
       encoding |-> IF doc.characterSet = "" THEN "UTF-8" ELSE doc.characterSet]

(***************************************************************************)
(* generateFieldMappings                                                   *)
(* A field name returned by a finder is Name(f); no field is null.         *)
(***************************************************************************)
Name(f) == [kind |-> "name", name |-> f]

\* reliability[field] >= threshold, false when the field has no reliability
MeetsThreshold(reliability, field, threshold) ==
  field \in DOMAIN reliability /\ RatGE(reliability[field], Num(threshold))

\* the first loop of findBestField, from index i on
RECURSIVE FirstMeeting(_, _, _, _)
FirstMeeting(candidates, reliability, threshold, i) ==
  IF i > Len(candidates) THEN Null
  ELSE IF MeetsThreshold(reliability, candidates[i], threshold) THEN Name(candidates[i])
  ELSE FirstMeeting(candidates, reliability, threshold, i + 1)

\* a variant that lets a later candidate of equal reliability replace the best
BeatsBestOnTie(reliability, field, bestScore) ==
  field \in DOMAIN reliability /\ RatGE(reliability[field], bestScore)

\* reliability[field] > bestScore, false when the field has no reliability
BeatsBest(reliability, field, bestScore) ==
  field \in DOMAIN reliability /\ RatGT(reliability[field], bestScore)

\* the second loop of findBestField, from index i on
RECURSIVE MostReliable(_, _, _, _, _)
MostReliable(candidates, reliability, i, best, bestScore) ==
  IF i > Len(candidates) THEN best
  ELSE IF BeatsBest(reliability, candidates[i], bestScore)
    THEN MostReliable(candidates, reliability, i + 1,
                      Name(candidates[i]), reliability[candidates[i]])
  ELSE MostReliable(candidates, reliability, i + 1, best, bestScore)

\* findBestField(candidates, reliability, threshold)
findBestField(candidates, reliability, threshold) ==
  LET first == FirstMeeting(candidates, reliability, threshold, 1)
  IN  IF first # Null THEN first
      ELSE MostReliable(candidates, reliability, 1, Null, Num(0))

\* a variant that lets a reliability equal to the limit through
ExceedsOrEquals(fieldReliability, field, limit) ==
  field \in DOMAIN fieldReliability /\ RatGE(fieldReliability[field], Num(limit))

\* fieldReliability[field] > limit, false when the field has no reliability
Exceeds(fieldReliability, field, limit) ==
  field \in DOMAIN fieldReliability /\ RatGT(fieldReliability[field], Num(limit))

\* sample?.type?.startsWith("image") for sample = fieldSamples["enclosure"]?.[0]
EnclosureIsImage(fieldSamples) ==
  /\ "enclosure" \in DOMAIN fieldSamples
  /\ Len(fieldSamples["enclosure"]) > 0
  /\ LET sample == fieldSamples["enclosure"][1]
     IN  /\ sample.kind = "object"
         /\ "type" \in DOMAIN sample.o
         /\ sample.o.type.kind = "string"
         /\ StartsWith(sample.o.type.s, <<"i", "m", "a", "g", "e">>)

\* an entry of imageFields
ImageField(source, type, fieldReliability) ==
  [kind |-> "image", source |-> source, type |-> type,
   reliability |-> fieldReliability[source]]

\* the candidates pushed to imageFields, in the order of the pushes
ImageCandidates(fieldReliability, fieldSamples) ==
     (IF Exceeds(fieldReliability, "media_content", 50)
        THEN <<ImageField("media_content", "media", fieldReliability)>> ELSE <<>>)
  \o (IF Exceeds(fieldReliability, "media_thumbnail", 50)
        THEN <<ImageField("media_thumbnail", "media", fieldReliability)>> ELSE <<>>)
  \o (IF Exceeds(fieldReliability, "enclosure", 50) /\ EnclosureIsImage(fieldSamples)
        THEN <<ImageField("enclosure", "enclosure", fieldReliability)>> ELSE <<>>)
  \o (IF Exceeds(fieldReliability, "extracted_images", 30)
        THEN <<ImageField("extracted_images", "html_extraction", fieldReliability)>> ELSE <<>>)
  \o (IF Exceeds(fieldReliability, "itunes_image", 50)
        THEN <<ImageField("itunes_image", "itunes", fieldReliability)>> ELSE <<>>)

\* x placed into a sequence sorted by reliability descending, after the
\* entries that compare equal to it (Array.prototype.sort is stable)
RECURSIVE InsertByReliability(_, _)
InsertByReliability(sorted, x) ==
  IF sorted = <<>> THEN <<x>>
  ELSE IF RatGT(x.reliability, Head(sorted).reliability) THEN <<x>> \o sorted
  ELSE <<Head(sorted)>> \o InsertByReliability(Tail(sorted), x)

\* a variant that leaves the candidates in the order of the pushes
KeepPushOrder(xs) == xs

\* imageFields.sort((a, b) => b.reliability - a.reliability)
RECURSIVE SortByReliability(_)
SortByReliability(xs) ==
  IF xs = <<>> THEN <<>>
  ELSE InsertByReliability(SortByReliability(SubSeq(xs, 1, Len(xs) - 1)), xs[Len(xs)])

\* findImageMapping(analysis)
findImageMapping(fieldReliability, fieldSamples) ==
  LET imageFields == SortByReliability(ImageCandidates(fieldReliability, fieldSamples))
  IN  IF imageFields # <<>> THEN imageFields[1] ELSE Null

titleCandidates == <<"title", "auto_title">>
linkCandidates == <<"link", "guid", "id", "auto_link">>
descCandidates == <<"description", "summary", "content", "content_encoded", "auto_description">>
contentCandidates == <<"content_encoded", "content", "description">>
dateCandidates == <<"pubDate", "published", "updated", "dc_date", "auto_pubdate">>
authorCandidates == <<"author", "dc_creator", "creator", "auto_author">>
categoryCandidates == <<"category", "auto_category", "tags">>

\* the confidence scores added to a slot that holds a field name
Enrich(value, fieldReliability, fieldSamples) ==
  IF value.kind = "name"
    THEN [kind |-> "mapping", field |-> value.name,
          reliability |-> IF value.name \in DOMAIN fieldReliability
                            /\ fieldReliability[value.name] # Num(0)
                            THEN fieldReliability[value.name] ELSE Num(0),
          sample |-> IF value.name \in DOMAIN fieldSamples
                        /\ Len(fieldSamples[value.name]) > 0
                        /\ Truthy(fieldSamples[value.name][1])
                        THEN fieldSamples[value.name][1] ELSE Null]
    ELSE value

\* the slots of a mapping, in the order of the keys of the mappings object
MappingSlots == <<"title", "link", "description", "date", "image", "author",
                  "category", "content">>

\* generateFieldMappings(analysis)
generateFieldMappings(analysis) ==
  LET r == analysis.fieldReliability
      fs == analysis.fieldSamples
  IN  [title |-> Enrich(findBestField(titleCandidates, r, 90), r, fs),
       link |-> Enrich(findBestField(linkCandidates, r, 90), r, fs),
       description |-> Enrich(findBestField(descCandidates, r, 70), r, fs),
       content |-> Enrich(findBestField(contentCandidates, r, 50), r, fs),
       date |-> Enrich(findBestField(dateCandidates, r, 70), r, fs),
       image |-> Enrich(findImageMapping(r, fs), r, fs),
       author |-> Enrich(findBestField(authorCandidates, r, 30), r, fs),
       category |-> Enrich(findBestField(categoryCandidates, r, 30), r, fs)]

(***************************************************************************)
(* validateDataQuality                                                     *)
(***************************************************************************)
\* a variant that weighs an issue like two warnings
calculateQualityScoreLight(issues, warnings) ==
  Max(0, Min(100, 100 - Len(issues) * 10 - Len(warnings) * 5))

\* calculateQualityScore(issues, warnings)
calculateQualityScore(issues, warnings) ==
  Max(0, Min(100, 100 - Len(issues) * 20 - Len(warnings) * 5))

\* fieldReliability[field] || 0
ReliabilityOrZero(fieldReliability, field) ==
  IF field \in DOMAIN fieldReliability THEN fieldReliability[field] ELSE Num(0)

\* !fieldReliability[field] || fieldReliability[field] < 50
Unreliable(fieldReliability, field) ==
  \/ field \notin DOMAIN fieldReliability
  \/ fieldReliability[field] = Num(0)
  \/ RatLT(fieldReliability[field], Num(50))

requiredFields == <<"title", "link", "description">>

\* requiredFields.forEach from index i on: the issues pushed
RECURSIVE RequiredIssuesFrom(_, _)
RequiredIssuesFrom(fieldReliability, i) ==
  IF i > Len(requiredFields) THEN <<>>
  ELSE (IF Unreliable(fieldReliability, requiredFields[i])
          THEN <<[level |-> "error", field |-> requiredFields[i],
                  reliability |-> ReliabilityOrZero(fieldReliability, requiredFields[i])]>>
          ELSE <<>>)
       \o RequiredIssuesFrom(fieldReliability, i + 1)

\* a variant that never sees an empty feed
ItemIssuesNever(itemCount) ==
  IF itemCount < 0 THEN <<[level |-> "error", field |-> "items"]>> ELSE <<>>

\* the issue pushed for a feed without items
ItemIssues(itemCount) ==
  IF itemCount = 0 THEN <<[level |-> "error", field |-> "items"]>> ELSE <<>>

\* the warning pushed for a feed with fewer than 5 items
ItemWarnings(itemCount) ==
  IF itemCount # 0 /\ itemCount < 5
    THEN <<[level |-> "warning", field |-> "items"]>> ELSE <<>>

validateDateFields == {"pubDate", "published", "updated", "dc_date"}
validateImageFields == {"media_content", "media_thumbnail", "enclosure", "extracted_images"}

\* validateDataQuality(analysis)
validateDataQuality(analysis) ==
  LET r == analysis.fieldReliability
      issues == ItemIssues(analysis.itemCount) \o RequiredIssuesFrom(r, 1)
      hasReliableDate == \E f \in validateDateFields : Exceeds(r, f, 70)
      hasImages == \E f \in validateImageFields : Exceeds(r, f, 30)
      warnings ==
           ItemWarnings(analysis.itemCount)
        \o (IF ~hasReliableDate THEN <<[level |-> "warning", field |-> "date"]>> ELSE <<>>)
        \o (IF "title" \in DOMAIN analysis.fieldPatterns /\ analysis.fieldPatterns["title"].hasHTML
              THEN <<[level |-> "warning", field |-> "title"]>> ELSE <<>>)
        \o (IF analysis.encoding # "UTF-8"
              THEN <<[level |-> "warning", field |-> "encoding"]>> ELSE <<>>)
      suggestions ==
           (IF ~hasImages THEN <<[level |-> "info", field |-> "image"]>> ELSE <<>>)
  IN  [isValid |-> Len(issues) = 0,
       issues |-> issues,
       warnings |-> warnings,
       suggestions |-> suggestions,
       qualityScore |-> calculateQualityScore(issues, warnings)]

(***************************************************************************)
(* checkCompatibility                                                      *)
(***************************************************************************)
\* a variant that lets the unknown feed type pass
feedTypesWithUnknown == {"rss2.0", "atom", "rss1.0", "unknown"}

supportedFeedTypes == {"rss2.0", "atom", "rss1.0"}
supportedNamespaces == {"dc", "content", "media", "atom"}

\* !mapping || (mapping.reliability && mapping.reliability < 50)
WeakMapping(mapping) ==
  \/ mapping = Null
  \/ /\ mapping.reliability # Num(0)
     /\ RatLT(mapping.reliability, Num(50))

\* Object.entries(mappings).forEach from slot i on: the entries pushed
RECURSIVE WeakMappingsFrom(_, _)
WeakMappingsFrom(mappings, i) ==
  IF i > Len(MappingSlots) THEN <<>>
  ELSE (IF WeakMapping(mappings[MappingSlots[i]])
          THEN <<[issue |-> "Weak mapping for " \o MappingSlots[i]]>> ELSE <<>>)
       \o WeakMappingsFrom(mappings, i + 1)

\* checkCompatibility(analysis); recommendations is kept as a set, the order
\* in which the namespaces and patterns are visited is not modelled
checkCompatibility(analysis) ==
  LET known == analysis.feedType \in supportedFeedTypes
      mappings == generateFieldMappings(analysis)
  IN  [isCompatible |-> known,
       requiresProcessing |->
            (IF ~known THEN <<[issue |-> "Unknown feed type"]>> ELSE <<>>)
         \o WeakMappingsFrom(mappings, 1),
       recommendations |->
            {[namespace |-> ns] : ns \in analysis.namespaces \ supportedNamespaces}
         \cup {[field |-> f] : f \in {g \in DOMAIN analysis.fieldPatterns :
                                  /\ analysis.fieldPatterns[g].hasHTML
                                  /\ g # "content" /\ g # "description"}}]

(***************************************************************************)
(* The modelled documents                                                  *)
(***************************************************************************)
T_Hi == <<"H", "i">>
T_Bold == <<"<", "b", ">", "T", "<", "/", "b", ">">>
T_Url == <<"h", "t", "t", "p", ":", "/", "/", "x">>
T_Url2 == <<"h", "t", "t", "p", "s", ":", "/", "/", "y">>
T_Img == <<"<", "i", "m", "g", " ", "s", "r", "c", "=", "'", "u", "'", ">">>
T_Year == <<"2", "0", "2", "4">>
T_Png == <<"i", "m", "a", "g", "e", "/", "p", "n", "g">>
T_Mp3 == <<"a", "u", "d", "i", "o", "/", "m", "p", "3">>
T_Alt == <<"a", "l", "t">>
T_Padded == <<" ", "t", " ">>

E_Title == Leaf("title", T_Hi, NoAttrs)
E_TitleEmpty == Leaf("title", <<>>, NoAttrs)
E_TitleHTML == Leaf("title", T_Bold, NoAttrs)
E_LinkText == Leaf("link", T_Url, NoAttrs)
E_LinkHref == Leaf("link", <<>>, [a \in {"href"} |-> T_Url2])
E_LinkAtom == Leaf("link", <<>>, [a \in {"href", "rel"} |-> IF a = "href" THEN T_Url2 ELSE T_Alt])
E_Description == Leaf("description", T_Img, NoAttrs)
E_PubDate == Leaf("pubDate", T_Year, NoAttrs)
E_Published == Leaf("published", T_Year, NoAttrs)
E_EnclosureImage == Leaf("enclosure", <<>>, [a \in {"url", "type"} |-> IF a = "url" THEN T_Url ELSE T_Png])
E_EnclosureAudio == Leaf("enclosure", <<>>, [a \in {"url", "type"} |-> IF a = "url" THEN T_Url ELSE T_Mp3])
E_MediaContent == Leaf("media:content", <<>>, [a \in {"url"} |-> T_Url])
E_Creator == Leaf("dc:creator", T_Hi, NoAttrs)
E_Custom == Leaf("x", T_Padded, [a \in {"a"} |-> T_Hi])
E_CustomAttrs == Leaf("x_attrs", T_Hi, NoAttrs)
E_Source == Node("source", <<Leaf("name", T_Hi, NoAttrs)>>)

\* the items of the documents of the analysis pipeline
I_Rss == <<E_Title, E_LinkText, E_Description, E_PubDate, E_EnclosureImage>>
I_Atom == <<E_TitleHTML, E_LinkAtom, E_Published, E_MediaContent>>
I_Sparse == <<E_TitleEmpty, E_EnclosureAudio, E_Custom>>
ItemPool == {I_Rss, I_Atom, I_Sparse}

\* the sequences over S of length at most n
SeqsUpTo(S, n) == UNION {[1..k -> S] : k \in 0..n}

\* the elements outside the items, the version attribute and the item tag
RootPool ==
  { [tags |-> {"rss", "channel"}, version |-> <<>>, itemTag |-> "item"],
    [tags |-> {"rss", "channel"}, version |-> <<"0.91">>, itemTag |-> "item"],
    [tags |-> {"rss", "channel", "feed"}, version |-> <<"2.0">>, itemTag |-> "item"],
    [tags |-> {"feed"}, version |-> <<>>, itemTag |-> "entry"],
    [tags |-> {"feed", "RDF"}, version |-> <<>>, itemTag |-> "entry"],
    [tags |-> {"rdf:RDF", "channel"}, version |-> <<>>, itemTag |-> "item"],
    [tags |-> {"html"}, version |-> <<>>, itemTag |-> "item"] }

NamespacePool == { {}, {"dc", "itunes"} }
CharacterSetPool == {"UTF-8", "ISO-8859-1"}

\* a document that failed to parse holds a parsererror element
BrokenDoc == [parseError |-> TRUE, tags |-> {"parsererror"}, version |-> <<>>,
              itemTag |-> "item", items |-> <<>>, namespaces |-> {},
              characterSet |-> "UTF-8"]

\* A document with a prefixed root parses only when the root declares that
\* prefix, so the rdf:RDF root always carries xmlns:rdf.
Docs ==
  {BrokenDoc} \cup
  { [parseError |-> FALSE, tags |-> r.tags, version |-> r.version, itemTag |-> r.itemTag,
     items |-> its,
     namespaces |-> ns \cup (IF "rdf:RDF" \in r.tags THEN {"rdf"} ELSE {}),
     characterSet |-> cs] :
       r \in RootPool, its \in SeqsUpTo(ItemPool, MaxItems),
       ns \in NamespacePool, cs \in CharacterSetPool }

\* what http_request answers for the feed URL
Responses ==
  { [success |-> FALSE, status |-> <<404>>, body |-> BrokenDoc],
    [success |-> FALSE, status |-> <<>>, body |-> BrokenDoc] }
  \cup { [success |-> TRUE, status |-> <<200>>, body |-> d] : d \in Docs }

\* the inputs of analyzeRSSFeed; an optional input is a sequence of zero or
\* one value
Inputs ==
  [feed_url : {<<>>, <<"">>, <<"https://x/feed">>},
   sample_size : {<<>>, <<0 - 1>>, <<0>>, <<2>>},
   deep_scan : {<<>>, <<FALSE>>}]

(***************************************************************************)
(* analyzeRSSFeed as a state machine                                       *)
(***************************************************************************)
VARIABLES
  pc,             \* the stage analyzeRSSFeed is about to run
  inputs,         \* its inputs
  feed,           \* what the HTTP collaborator answers for the feed URL
  calls,          \* the stages and collaborators called so far
  feedContent,    \* the body fetchFeed returned
  analysis,       \* the result of analyzeFeedStructure
  mappings,       \* the result of generateFieldMappings
  validation,     \* the result of validateDataQuality
  compatibility,  \* the result of checkCompatibility
  report,         \* the value analyzeRSSFeed returned
  probe,          \* the input of a helper applied on its own
  outcome,        \* the result of that helper
  localStorage,   \* the browser's localStorage: item key -> stored text
  sessionStorage, \* the browser's sessionStorage: item key -> stored text
  clock,          \* what Date.now() returns, in ms from the first call
  tasks           \* the calls of fetchRSSFeeds and fetchCardPage made so far

vars == <<pc, inputs, feed, calls, feedContent, analysis, mappings, validation,
          compatibility, report, probe, outcome, localStorage, sessionStorage,
          clock, tasks>>

\* the storage and the cache clients while no cache client runs
CacheIdle ==
  /\ localStorage = EmptyMap
  /\ sessionStorage = EmptyMap
  /\ clock = 0
  /\ tasks = <<>>

CacheUnchanged == UNCHANGED <<localStorage, sessionStorage, clock, tasks>>

\* const { feed_url, sample_size = 5, deep_scan = true } = inputs
DefaultSampleSize == 5
SampleSizeOf(in) == IF in.sample_size = <<>> THEN DefaultSampleSize ELSE in.sample_size[1]
DeepScanOf(in) == IF in.deep_scan = <<>> THEN TRUE ELSE in.deep_scan[1]

\* !feed_url
FeedUrlMissing(in) == in.feed_url = <<>> \/ in.feed_url[1] = ""

Init ==
  /\ pc = "start"
  /\ inputs \in Inputs
  /\ feed \in Responses
  /\ calls = <<>>
  /\ feedContent = Null
  /\ analysis = Null
  /\ mappings = Null
  /\ validation = Null
  /\ compatibility = Null
  /\ report = Null
  /\ probe = Null
  /\ outcome = Null
  /\ CacheIdle

\* if (!feed_url) return { success: false, error: "feed_url is required" }
CheckInput ==
  /\ pc = "start"
  /\ IF FeedUrlMissing(inputs)
       THEN /\ report' = [success |-> FALSE, error |-> "feed_url is required"]
            /\ pc' = "done"
       ELSE /\ report' = report
            /\ pc' = "fetch"
  /\ UNCHANGED <<inputs, feed, calls, feedContent, analysis, mappings, validation,
                 compatibility, probe, outcome>>
  /\ CacheUnchanged

\* the report of the catch block for an error with the given message
Failure(message) == [success |-> FALSE, error |-> message, details |-> "stack"]

\* a variant of fetchFeed that does not look at response.success
FetchUnchecked ==
  /\ pc = "fetch"
  /\ calls' = Append(calls, "http_request")
  /\ feedContent' = feed.body
  /\ pc' = "analyze"
  /\ UNCHANGED <<inputs, feed, analysis, mappings, validation, compatibility,
                 report, probe, outcome>>
  /\ CacheUnchanged

\* Step 1: fetchFeed(feed_url)
Fetch ==
  /\ pc = "fetch"
  /\ calls' = Append(calls, "http_request")
  /\ IF ~feed.success
       THEN /\ report' = Failure("Failed to fetch feed: " \o
                                 (IF feed.status # <<>> /\ feed.status[1] # 0
                                    THEN ToString(feed.status[1]) ELSE "Unknown error"))
            /\ pc' = "done"
            /\ feedContent' = feedContent
       ELSE /\ feedContent' = feed.body
            /\ report' = report
            /\ pc' = "analyze"
  /\ UNCHANGED <<inputs, feed, analysis, mappings, validation, compatibility,
                 probe, outcome>>
  /\ CacheUnchanged

\* Step 2: analyzeFeedStructure(feedContent, sample_size, deep_scan)
Analyze ==
  /\ pc = "analyze"
  /\ calls' = Append(calls, "analyzeFeedStructure")
  /\ IF feedContent.parseError
       THEN /\ report' = Failure("Invalid XML: " \o "parsererror")
            /\ pc' = "done"
            /\ analysis' = analysis
       ELSE /\ analysis' = analyzeFeedStructure(feedContent, SampleSizeOf(inputs),
                                                DeepScanOf(inputs))
            /\ report' = report
            /\ pc' = "map"
  /\ UNCHANGED <<inputs, feed, feedContent, mappings, validation, compatibility,
                 probe, outcome>>
  /\ CacheUnchanged

\* Step 3: generateFieldMappings(analysis)
Map ==
  /\ pc = "map"
  /\ calls' = Append(calls, "generateFieldMappings")
  /\ mappings' = generateFieldMappings(analysis)
  /\ pc' = "validate"
  /\ UNCHANGED <<inputs, feed, feedContent, analysis, validation, compatibility,
                 report, probe, outcome>>
  /\ CacheUnchanged

\* Step 4: validateDataQuality(analysis)
Validate ==
  /\ pc = "validate"
  /\ calls' = Append(calls, "validateDataQuality")
  /\ validation' = validateDataQuality(analysis)
  /\ pc' = "compat"
  /\ UNCHANGED <<inputs, feed, feedContent, analysis, mappings, compatibility,
                 report, probe, outcome>>
  /\ CacheUnchanged

\* Step 5: checkCompatibility(analysis), and the success report (its timestamp
\* is not modelled)
Compat ==
  /\ pc = "compat"
  /\ calls' = Append(calls, "checkCompatibility")
  /\ compatibility' = checkCompatibility(analysis)
  /\ report' = [success |-> TRUE, feed_url |-> inputs.feed_url[1], analysis |-> analysis,
                recommended_mappings |-> mappings, validation |-> validation,
                compatibility |-> compatibility']
  /\ pc' = "done"
  /\ UNCHANGED <<inputs, feed, feedContent, analysis, mappings, validation,
                 probe, outcome>>
  /\ CacheUnchanged

Next == CheckInput \/ Fetch \/ Analyze \/ Map \/ Validate \/ Compat

Spec == Init /\ [][Next]_vars

(***************************************************************************)
(* The helpers applied on their own                                        *)
(* Each specification below draws an input of one helper (probe), applies  *)
(* the helper once and keeps its result (outcome).                         *)
(***************************************************************************)
\* the variables of analyzeRSSFeed, unused while a helper is applied
PipelineIdle ==
  /\ inputs = Null /\ feed = Null /\ calls = <<>> /\ feedContent = Null
  /\ analysis = Null /\ mappings = Null /\ validation = Null
  /\ compatibility = Null /\ report = Null

PipelineUnchanged == UNCHANGED <<inputs, feed, calls, feedContent, analysis, mappings,
                                 validation, compatibility, report>>

Idle == PipelineIdle /\ CacheIdle

IdleUnchanged == PipelineUnchanged /\ CacheUnchanged

\* the maps from some of the fields to a value of values
MapsOver(fields, values) == UNION {[S -> values] : S \in SUBSET fields}

(***************************************************************************)
(* findBestField on its own                                                *)
(***************************************************************************)
\* largest number of candidates
MaxCandidates == 3
CandidateNames == {"a", "b", "c"}
Percentages == {Num(0), Num(40), Num(90), Num(95)}
Thresholds == {30, 50, 70, 90}

InitBestField ==
  /\ pc = "call"
  /\ probe \in [candidates : SeqsUpTo(CandidateNames, MaxCandidates),
                reliability : MapsOver(CandidateNames, Percentages),
                threshold : Thresholds]
  /\ outcome = Null
  /\ Idle

ApplyBestField ==
  /\ pc = "call"
  /\ outcome' = findBestField(probe.candidates, probe.reliability, probe.threshold)
  /\ pc' = "return"
  /\ UNCHANGED probe
  /\ IdleUnchanged

SpecBestField == InitBestField /\ [][ApplyBestField]_vars

(***************************************************************************)
(* findImageMapping on its own                                             *)
(***************************************************************************)
imageSources == {"media_content", "media_thumbnail", "enclosure", "extracted_images",
                 "itunes_image"}
ImagePercentages == {Num(30), Num(50), Num(60), Num(80)}
EnclosureTypes == {Str(T_Png), Str(T_Mp3), Null}

\* an enclosure value as extractAllFields records it
EnclosureValue(type) == Obj([url |-> Str(T_Url), type |-> type, length |-> Null])

\* a field with a reliability has been seen, so fieldSamples has its key; the
\* enclosure values are objects, so its first sample is the first enclosure
InitImage ==
  /\ pc = "call"
  /\ \E r \in MapsOver(imageSources, ImagePercentages), ty \in EnclosureTypes :
       probe = [fieldReliability |-> r,
                fieldSamples |-> [f \in DOMAIN r |->
                                    IF f = "enclosure" THEN <<EnclosureValue(ty)>> ELSE <<>>]]
  /\ outcome = Null
  /\ Idle

ApplyImage ==
  /\ pc = "call"
  /\ outcome' = findImageMapping(probe.fieldReliability, probe.fieldSamples)
  /\ pc' = "return"
  /\ UNCHANGED probe
  /\ IdleUnchanged

SpecImage == InitImage /\ [][ApplyImage]_vars

(***************************************************************************)
(* analyzeFieldPattern folded over a sequence of values                    *)
(***************************************************************************)
T_Hello == <<"h", "e", "l", "l", "o">>
T_Welcome == <<"w", "e", "l", "c", "o", "m", "e">>

ValuePool == {Str(T_Alt), Str(T_Hello), Str(T_Welcome), Str(T_Bold), Str(T_Url),
              Str(T_Year), EnclosureValue(Str(T_Png)), Arr(<<[src |-> <<"u">>]>>)}

\* probe holds the values and the index of the next one to observe; outcome
\* holds the pattern so far, a sequence of zero or one pattern
InitPattern ==
  /\ pc = "fold"
  /\ \E vs \in SeqsUpTo(ValuePool, MaxValues) : probe = [values |-> vs, next |-> 1]
  /\ outcome = <<>>
  /\ Idle

\* fieldPatterns[field] = analyzeFieldPattern(itemFields[field], fieldPatterns[field])
Observe ==
  /\ pc = "fold"
  /\ probe.next <= Len(probe.values)
  /\ outcome' = <<analyzeFieldPattern(probe.values[probe.next], outcome)>>
  /\ probe' = [probe EXCEPT !.next = @ + 1]
  /\ UNCHANGED pc
  /\ IdleUnchanged

SpecPattern == InitPattern /\ [][Observe]_vars

(***************************************************************************)
(* extractAllFields on its own                                             *)
(***************************************************************************)
ElementPool == {E_Title, E_TitleEmpty, E_TitleHTML, E_LinkText, E_LinkHref, E_LinkAtom,
                E_Description, E_PubDate, E_Published, E_EnclosureImage,
                E_EnclosureAudio, E_MediaContent, E_Creator, E_Custom, E_CustomAttrs,
                E_Source}

InitExtract ==
  /\ pc = "call"
  /\ probe \in [item : SeqsUpTo(ElementPool, MaxElems), deepScan : BOOLEAN]
  /\ outcome = Null
  /\ Idle

ApplyExtract ==
  /\ pc = "call"
  /\ outcome' = extractAllFields(probe.item, probe.deepScan)
  /\ pc' = "return"
  /\ UNCHANGED probe
  /\ IdleUnchanged

SpecExtract == InitExtract /\ [][ApplyExtract]_vars

(***************************************************************************)
(* generateParsingInstructions                                             *)
(* An instruction is null or the expression                                *)
(* item.querySelector('<selector>') followed by an access; the selector is *)
(* the text the template literal interpolates.                             *)
(***************************************************************************)
Expr(selector, access) == [kind |-> "expr", selector |-> selector, access |-> access]

\* a variant that reads the field with optional chaining, so that a null slot
\* interpolates as the text undefined
FieldOfOptional(mapping) ==
  IF mapping = Null THEN "undefined" ELSE mapping.field

\* mappings.<slot>.field: the field of the slot, or the TypeError of reading
\* a property of null
FieldOf(mapping) ==
  IF mapping = Null THEN "TypeError" ELSE mapping.field

\* the switch on mappings.image.type; a type without a case leaves null
ImageInstruction(image) ==
  IF image = Null THEN Null
  ELSE CASE image.type = "media" -> Expr(image.source, "?.getAttribute('url')")
         [] image.type = "enclosure" ->
              Expr("enclosure[type^=\"image\"]", "?.getAttribute('url')")
         [] image.type = "html_extraction" ->
              Expr("description", "extractFirstImage(?.textContent)")
         [] OTHER -> Null

parsedSlots == <<"title", "link", "description", "date">>

\* generateParsingInstructions(mappings): the instructions, or the TypeError
\* of the first property read on a null slot
generateParsingInstructions(m) ==
  IF \E i \in 1..Len(parsedSlots) : FieldOf(m[parsedSlots[i]]) = "TypeError"
    THEN [kind |-> "throw", error |-> "TypeError"]
    ELSE [kind |-> "instructions",
          title |-> Expr(FieldOf(m.title), "?.textContent"),
          link |-> Expr(FieldOf(m.link), "?.textContent || ?.getAttribute('href')"),
          description |-> Expr(FieldOf(m.description), "?.textContent"),
          date |-> Expr(FieldOf(m.date), "?.textContent"),
          image |-> ImageInstruction(m.image)]

\* the range of a sequence
Range(seq) == {seq[i] : i \in 1..Len(seq)}

\* a slot as generateFieldMappings fills it from a candidate list: null or an
\* enriched field
SlotValues(candidates) ==
  {Null} \cup {[kind |-> "mapping", field |-> f, reliability |-> Num(100), sample |-> Null] :
                 f \in Range(candidates)}

\* the image slots findImageMapping can return
ImageSlotValues ==
  {Null} \cup
  {[kind |-> "image", source |-> x.source, type |-> x.type, reliability |-> Num(80)] :
     x \in {[source |-> "media_content", type |-> "media"],
            [source |-> "media_thumbnail", type |-> "media"],
            [source |-> "enclosure", type |-> "enclosure"],
            [source |-> "extracted_images", type |-> "html_extraction"],
            [source |-> "itunes_image", type |-> "itunes"]}}

InitInstructions ==
  /\ pc = "call"
  /\ probe \in [title : SlotValues(titleCandidates), link : SlotValues(linkCandidates),
                description : SlotValues(descCandidates), date : SlotValues(dateCandidates),
                image : ImageSlotValues, author : {Null}, category : {Null},
                content : {Null}]
  /\ outcome = Null
  /\ Idle

ApplyInstructions ==
  /\ pc = "call"
  /\ outcome' = generateParsingInstructions(probe)
  /\ pc' = "return"
  /\ UNCHANGED probe
  /\ IdleUnchanged

SpecInstructions == InitInstructions /\ [][ApplyInstructions]_vars

(***************************************************************************)
(* storeMappingConfig                                                      *)
(***************************************************************************)
\* JSON.stringify of a value, kept apart from the value itself
JSONstringify(value) == [json |-> value]

\* the instants new Date() can give
Instants == {"2024-01-01T00:00:00.000Z", "2024-06-01T12:00:00.000Z"}

\* storeMappingConfig(feed_id, mappings, analysis), called at instant now
storeMappingConfig(feed_id, m, a, now) ==
  [table |-> "rss_feed_mappings",
   data |-> [feed_id |-> feed_id,
             mappings |-> JSONstringify(m),
             field_list |-> a.uniqueFields,
             reliability_scores |-> a.fieldReliability,
             last_analyzed |-> now,
             quality_score |-> calculateQualityScore(<<>>, <<>>)]]

\* the analysis and the mappings of a document that parsed
InitStore ==
  /\ pc = "call"
  /\ \E d \in Docs \ {BrokenDoc}, id \in {"feed-1", "feed-2"} :
       LET a == analyzeFeedStructure(d, DefaultSampleSize, TRUE)
       IN  probe = [feed_id |-> id, mappings |-> generateFieldMappings(a), analysis |-> a]
  /\ outcome = Null
  /\ Idle

ApplyStore ==
  /\ pc = "call"
  /\ \E now \in Instants :
       outcome' = storeMappingConfig(probe.feed_id, probe.mappings, probe.analysis, now)
  /\ pc' = "return"
  /\ UNCHANGED probe
  /\ IdleUnchanged

SpecStore == InitStore /\ [][ApplyStore]_vars

(***************************************************************************)
(* The cache clients fetchRSSFeeds and fetchCardPage                       *)
(* A call has two awaits: await fetch(...) for the response and            *)
(* await resp.json() for its body.  It runs to the first await in one      *)
(* step (pc "fetch"), from the response to the second await in another     *)
(* (pc "json"), and from the body to its return in a third (pc "done");    *)
(* other calls and the clock may move at either await.  The server builds  *)
(* its answer when it responds.  tasks keeps every call made, in starting  *)
(* order: its arguments, the cache as it loaded it, the answer of the      *)
(* server (response), the keys it stored (wrote), the calls that were at   *)
(* an await when it started (during) and what it returned (result).        *)
(***************************************************************************)
CACHE_KEY == "rss_feed_cache"
CACHE_TTL == 24 * 60 * 60 * 1000
PAGE_CACHE == "card_page_cache"

\* the largest number of calls made
MaxCalls == 2
\* the largest number of clock advances
MaxTicks == 2

\* the feeds arguments and the card ids of the calls
FeedLists == {<<"a">>, <<"b">>, <<"a", "b">>}
CardIds == {"p", "q"}

\* JSON.parse of a text JSON.stringify wrote
JSONparse(text) == text.json

\* JSON.parse(storage.getItem(key) || '{}')
LoadFrom(storage, key) ==
  IF key \in DOMAIN storage THEN JSONparse(storage[key]) ELSE EmptyMap

loadCache == LoadFrom(localStorage, CACHE_KEY)
loadPages == LoadFrom(sessionStorage, PAGE_CACHE)

\* localStorage after saveCache(cache)
saveCache(cache) == Put(localStorage, CACHE_KEY, JSONstringify(cache))

\* sessionStorage after savePages(pages)
savePages(pages) == Put(sessionStorage, PAGE_CACHE, JSONstringify(pages))

\* the data the server has for a feed at instant t; last_fetched_at is the
\* instant itself in place of its text
FeedDataAt(t) == [items |-> <<>>, last_fetched_at |-> t]

\* the data the server has for a card page
PageData(id) == [id |-> id, cards |-> <<>>]

\* entry && now - entry.timestamp < CACHE_TTL, for entry = cache[feed]
IsFresh(cache, name, now) ==
  name \in DOMAIN cache /\ now - cache[name].timestamp < CACHE_TTL

\* for (const feed of feeds): the result, the stale feeds and the
\* last_fetched_at map after the loop over feeds, from acc
RECURSIVE SplitFeeds(_, _, _, _)
SplitFeeds(feeds, cache, now, acc) ==
  IF feeds = <<>> THEN acc
  ELSE LET name == Head(feeds)
       IN  SplitFeeds(Tail(feeds), cache, now,
             IF IsFresh(cache, name, now)
               THEN [acc EXCEPT !.result = Put(@, name, cache[name].data),
                                !.lastFetched = Put(@, name, cache[name].data.last_fetched_at)]
               ELSE [acc EXCEPT !.stale = Append(@, name),
                                !.lastFetched =
                                  IF name \in DOMAIN cache
                                    THEN Put(@, name, cache[name].data.last_fetched_at)
                                    ELSE @])

\* for (const feed of stale): the cache and the result after the loop over
\* the stale feeds, given the data of the response
RECURSIVE StoreStale(_, _, _, _)
StoreStale(stale, data, now, acc) ==
  IF stale = <<>> THEN acc
  ELSE LET name == Head(stale)
       IN  StoreStale(Tail(stale), data, now,
             IF name \in DOMAIN data
               THEN [acc EXCEPT !.cache = Put(@, name, [timestamp |-> now, data |-> data[name]]),
                                !.result = Put(@, name, data[name]),
                                !.wrote = @ \cup {name}]
               ELSE acc)

\* what the server can answer to a request for the stale feeds: data for
\* each feed, except that a feed whose last_fetched_at was sent may be left
\* out as unchanged
FeedResponses(stale, lastFetched, t) ==
  {[name \in D |-> FeedDataAt(t)] :
     D \in {S \in SUBSET Range(stale) : Range(stale) \ S \subseteq DOMAIN lastFetched}}

\* the calls at one of their awaits
Awaiting == {i \in 1..Len(tasks) : tasks[i].pc \in {"fetch", "json"}}

InitCache ==
  /\ pc = "clients"
  /\ probe = Null /\ outcome = Null
  /\ PipelineIdle
  /\ CacheIdle

\* fetchRSSFeeds(feeds) up to await fetch, or to its return when nothing is
\* stale
StartFeeds ==
  /\ Len(tasks) < MaxCalls
  /\ \E feeds \in FeedLists :
       LET now == clock
           cache == loadCache
           split == SplitFeeds(feeds, cache, now,
                      [result |-> EmptyMap, stale |-> <<>>, lastFetched |-> EmptyMap])
       IN  tasks' = Append(tasks,
             [fn |-> "fetchRSSFeeds", args |-> feeds, now |-> now, cache |-> cache,
              result |-> split.result, stale |-> split.stale,
              lastFetched |-> split.lastFetched, response |-> Null, wrote |-> {},
              during |-> Awaiting,
              pc |-> IF Len(split.stale) > 0 THEN "fetch" ELSE "done"])
  /\ UNCHANGED <<pc, probe, outcome, localStorage, sessionStorage, clock>>
  /\ PipelineUnchanged

\* await fetch('/rss_feed', ...) resolves: the server has answered the
\* request, and the call goes on to await resp.json()
RespondFeeds ==
  /\ \E i \in Awaiting :
       /\ tasks[i].fn = "fetchRSSFeeds" /\ tasks[i].pc = "fetch"
       /\ \E data \in FeedResponses(tasks[i].stale, tasks[i].lastFetched, clock) :
            tasks' = [tasks EXCEPT ![i] = [@ EXCEPT !.response = data, !.pc = "json"]]
  /\ UNCHANGED <<pc, probe, outcome, localStorage, sessionStorage, clock>>
  /\ PipelineUnchanged

\* await resp.json() resolves: fetchRSSFeeds from the body of the response
\* to its return
ResumeFeeds ==
  /\ \E i \in Awaiting :
       /\ tasks[i].fn = "fetchRSSFeeds" /\ tasks[i].pc = "json"
       /\ LET t == tasks[i]
              stored == StoreStale(t.stale, t.response, t.now,
                          [cache |-> t.cache, result |-> t.result, wrote |-> {}])
          IN  /\ localStorage' = saveCache(stored.cache)
              /\ tasks' = [tasks EXCEPT ![i] =
                             [t EXCEPT !.result = stored.result,
                                       !.wrote = stored.wrote, !.pc = "done"]]
  /\ UNCHANGED <<pc, probe, outcome, sessionStorage, clock>>
  /\ PipelineUnchanged

\* fetchCardPage(id) up to await fetch, or to its return when the page is
\* cached
StartPage ==
  /\ Len(tasks) < MaxCalls
  /\ \E id \in CardIds :
       LET pages == loadPages
       IN  tasks' = Append(tasks,
             [fn |-> "fetchCardPage", args |-> <<id>>, pages |-> pages,
              result |-> IF id \in DOMAIN pages THEN pages[id] ELSE Null,
              response |-> Null, wrote |-> {}, during |-> Awaiting,
              pc |-> IF id \in DOMAIN pages THEN "done" ELSE "fetch"])
  /\ UNCHANGED <<pc, probe, outcome, localStorage, sessionStorage, clock>>
  /\ PipelineUnchanged

\* await fetch(`/cards/${id}`) resolves: the server has answered, and the
\* call goes on to await resp.json()
RespondPage ==
  /\ \E i \in Awaiting :
       /\ tasks[i].fn = "fetchCardPage" /\ tasks[i].pc = "fetch"
       /\ tasks' = [tasks EXCEPT ![i] =
                      [@ EXCEPT !.response = PageData(tasks[i].args[1]), !.pc = "json"]]
  /\ UNCHANGED <<pc, probe, outcome, localStorage, sessionStorage, clock>>
  /\ PipelineUnchanged

\* await resp.json() resolves: fetchCardPage from the body of the response
\* to its return
ResumePage ==
  /\ \E i \in Awaiting :
       /\ tasks[i].fn = "fetchCardPage" /\ tasks[i].pc = "json"
       /\ LET t == tasks[i]
              id == t.args[1]
              data == t.response
              pages == Put(t.pages, id, data)
          IN  /\ sessionStorage' = savePages(pages)
              /\ tasks' = [tasks EXCEPT ![i] =
                             [t EXCEPT !.result = data, !.wrote = {id}, !.pc = "done"]]
  /\ UNCHANGED <<pc, probe, outcome, localStorage, clock>>
  /\ PipelineUnchanged

\* time passes, half a day at a time
Tick ==
  /\ clock < MaxTicks * (CACHE_TTL \div 2)
  /\ clock' = clock + (CACHE_TTL \div 2)
  /\ UNCHANGED <<pc, probe, outcome, localStorage, sessionStorage, tasks>>
  /\ PipelineUnchanged

NextCache ==
  \/ StartFeeds \/ RespondFeeds \/ ResumeFeeds
  \/ StartPage \/ RespondPage \/ ResumePage
  \/ Tick

SpecCache == InitCache /\ [][NextCache]_vars

(***************************************************************************)
(* Properties                                                              *)
(***************************************************************************)
\* the image case of C1: media_content at 60, enclosure at 80 with an
\* image-typed first sample, and no other candidate qualifies
NoOtherImageQualifies(r) ==
  /\ "media_thumbnail" \in DOMAIN r => RatLE(r["media_thumbnail"], Num(50))
  /\ "extracted_images" \in DOMAIN r => RatLE(r["extracted_images"], Num(30))
  /\ "itunes_image" \in DOMAIN r => RatLE(r["itunes_image"], Num(50))

FirstEnclosureIsImage(fs) ==
  /\ "enclosure" \in DOMAIN fs /\ fs["enclosure"] # <<>>
  /\ fs["enclosure"][1] \in {EnclosureValue(Str(T_Png))}

BothImagesQualify(m, e) ==
  /\ pc = "return"
  /\ {"media_content", "enclosure"} \subseteq DOMAIN probe.fieldReliability
  /\ probe.fieldReliability["media_content"] = Num(m)
  /\ probe.fieldReliability["enclosure"] = Num(e)
  /\ FirstEnclosureIsImage(probe.fieldSamples)
  /\ NoOtherImageQualifies(probe.fieldReliability)

\* C1 as stated: with media_content at 60 and enclosure at 80 (image-typed
\* first sample, nothing else qualifying) findImageMapping returns
\* media_content.
C1_NamespacePriority ==
  BothImagesQualify(60, 80) => (outcome # Null /\ outcome.source = "media_content")

\* C1 amended: with media_content at 60 and enclosure at 80 (image-typed
\* first sample, nothing else qualifying) findImageMapping returns enclosure,
\* the more reliable one; the namespace priority decides only between
\* candidates of equal reliability, where media_content is returned.
C1_HigherReliabilityWins ==
  /\ BothImagesQualify(60, 80) =>
       (outcome # Null /\ outcome.source = "enclosure" /\ outcome.type = "enclosure"
          /\ outcome.reliability = Num(80))
  /\ \A x \in {60, 80} : BothImagesQualify(x, x) =>
       (outcome # Null /\ outcome.source = "media_content" /\ outcome.reliability = Num(x))

C1_Witness ==
  /\ BothImagesQualify(60, 80)
  /\ "extracted_images" \in DOMAIN probe.fieldReliability
  /\ outcome # Null /\ outcome.source = "enclosure"

\* the reliability of a candidate, zero when it has none
ReliabilityOf(r, f) == IF f \in DOMAIN r THEN r[f] ELSE Num(0)

\* C2: findBestField returns the first candidate in list order whose
\* reliability is at least the threshold; if there is none, the first
\* candidate in list order among those of the highest reliability; and it
\* returns null exactly when every candidate has zero or no reliability.
C2_BestField ==
  pc = "return" =>
    LET c == probe.candidates
        r == probe.reliability
        meeting == {i \in 1..Len(c) : RatGE(ReliabilityOf(r, c[i]), Num(probe.threshold))}
        positive == {i \in 1..Len(c) : RatGT(ReliabilityOf(r, c[i]), Num(0))}
        top == {i \in positive : \A j \in positive :
                  RatGE(ReliabilityOf(r, c[i]), ReliabilityOf(r, c[j]))}
        least(S) == CHOOSE i \in S : \A j \in S : i <= j
    IN  /\ meeting # {} => outcome = Name(c[least(meeting)])
        /\ (meeting = {} /\ positive # {}) => outcome = Name(c[least(top)])
        /\ (outcome = Null) <=> (positive = {})

\* candidates [a, b] with {a: 40, b: 40} and threshold 90: neither meets the
\* threshold and the tie goes to a
C2_Witness ==
  /\ pc = "return"
  /\ probe.candidates = <<"a", "b">>
  /\ probe.reliability = [f \in {"a", "b"} |-> Num(40)]
  /\ probe.threshold = 90
  /\ outcome = Name("a")

\* the fields of the sampled item of index i (from 1) of the analysis
SampledFields(i) == analysis.items[i].fields

\* C3: every reliability lies in [0, 100], and a field present in every
\* sampled item has reliability exactly 100.
C3_ReliabilityRange ==
  analysis # Null =>
    \A f \in DOMAIN analysis.fieldReliability :
      /\ RatGE(analysis.fieldReliability[f], Num(0))
      /\ RatLE(analysis.fieldReliability[f], Num(100))
      /\ (\A i \in 1..Len(analysis.items) : f \in DOMAIN SampledFields(i))
           => analysis.fieldReliability[f] = Num(100)

\* two of three items were sampled; one field is in both, another in one only
C3_Witness ==
  /\ analysis # Null
  /\ analysis.itemCount = 3 /\ Len(analysis.items) = 2
  /\ \E f, g \in DOMAIN analysis.fieldReliability :
       /\ \A i \in 1..2 : f \in DOMAIN SampledFields(i)
       /\ analysis.fieldReliability[f] = Num(100)
       /\ g \notin DOMAIN SampledFields(2)
       /\ analysis.fieldReliability[g] = Num(50)

RdfTags == {"rdf:RDF", "RDF"}

\* C4: detection yields one of rss1.0, rss2.0, atom and unknown: rss2.0 for
\* a document with an rss element whatever its version, else atom for one
\* with a feed element, else rss1.0 for one with an RDF root, else unknown.
C4_ClosedFeedTypes ==
  analysis # Null =>
    /\ analysis.feedType \in {"rss1.0", "rss2.0", "atom", "unknown"}
    /\ analysis.feedType =
         (IF "rss" \in feedContent.tags THEN "rss2.0"
          ELSE IF "feed" \in feedContent.tags THEN "atom"
          ELSE IF feedContent.tags \cap RdfTags # {} THEN "rss1.0"
          ELSE "unknown")

\* C5: for a document without an rss, feed or RDF element checkCompatibility
\* returns isCompatible = false and a requiresProcessing entry for the
\* unknown feed type, whatever the reliabilities and mappings.
C5_UnknownIncompatible ==
  (compatibility # Null /\ feedContent.tags \cap ({"rss", "feed"} \cup RdfTags) = {}) =>
    /\ compatibility.isCompatible = FALSE
    /\ \E i \in 1..Len(compatibility.requiresProcessing) :
         compatibility.requiresProcessing[i].issue = "Unknown feed type"

\* an unknown document whose items map title and link strongly
C5_Witness ==
  /\ compatibility # Null
  /\ feedContent.tags = {"html"}
  /\ analysis.itemCount > 0
  /\ mappings.title # Null /\ mappings.title.reliability = Num(100)
  /\ mappings.link # Null /\ mappings.link.reliability = Num(100)
  /\ compatibility.isCompatible = FALSE

\* C6: with itemCount = 0, isValid is false, exactly one issue has the field
\* "items", and qualityScore is at most 80.
C6_EmptyFeed ==
  (validation # Null /\ analysis.itemCount = 0) =>
    /\ validation.isValid = FALSE
    /\ Cardinality({i \in 1..Len(validation.issues) :
                      validation.issues[i].field = "items"}) = 1
    /\ validation.qualityScore <= 80

\* a document that has a known root and no item
C6_Witness ==
  /\ validation # Null
  /\ analysis.itemCount = 0
  /\ feedContent.items = <<>>
  /\ validation.qualityScore <= 80

\* C7: qualityScore = max(0, min(100, 100 - 20 |issues| - 5 |warnings|)),
\* which lies in [0, 100], and isValid holds exactly when issues is empty.
C7_QualityScore ==
  validation # Null =>
    LET raw == 100 - 20 * Len(validation.issues) - 5 * Len(validation.warnings)
    IN  /\ validation.qualityScore = (IF raw < 0 THEN 0 ELSE IF raw > 100 THEN 100 ELSE raw)
        /\ validation.qualityScore \in 0..100
        /\ validation.isValid <=> (validation.issues = <<>>)

\* an invalid result with issues and warnings
C7_Witness ==
  /\ validation # Null
  /\ Len(validation.issues) = 2 /\ Len(validation.warnings) = 3
  /\ validation.isValid = FALSE
  /\ validation.qualityScore = 45

StageOrder == <<"http_request", "analyzeFeedStructure", "generateFieldMappings",
                "validateDataQuality", "checkCompatibility">>

\* a failure report of the catch block, with no section of a success report
\* computed
HardFailure ==
  /\ DOMAIN report = {"success", "error", "details"}
  /\ report.success = FALSE
  /\ mappings = Null /\ validation = Null /\ compatibility = Null

\* C8: the stages run in the order fetch, analyze, map, validate, check
\* compatibility; with feed_url absent the call fails without any fetch; a
\* failed fetch or a parse error stops the later stages and gives
\* {success: false, error, details}; a success report holds all sections.
C8_StageOrder ==
  /\ \E k \in 0..Len(StageOrder) : calls = SubSeq(StageOrder, 1, k)
  /\ inputs.feed_url \in {<<>>, <<"">>} =>
       /\ calls = <<>>
       /\ pc = "done" => report.success = FALSE
  /\ (pc = "done" /\ inputs.feed_url \notin {<<>>, <<"">>}) =>
       /\ ~feed.success => (calls = SubSeq(StageOrder, 1, 1) /\ HardFailure /\ analysis = Null)
       /\ (feed.success /\ feed.body.parseError) =>
            (calls = SubSeq(StageOrder, 1, 2) /\ HardFailure /\ analysis = Null)
       /\ (feed.success /\ ~feed.body.parseError) =>
            /\ calls = StageOrder
            /\ report.success = TRUE
            /\ {"analysis", "recommended_mappings", "validation", "compatibility"}
                 \subseteq DOMAIN report
            /\ report.analysis = analysis /\ analysis # Null
            /\ report.recommended_mappings = mappings /\ mappings # Null
            /\ report.validation = validation /\ validation # Null
            /\ report.compatibility = compatibility /\ compatibility # Null

\* the fetch failed and analyzeRSSFeed returned after that one call
C8_Witness ==
  /\ pc = "done"
  /\ inputs.feed_url = <<"https://x/feed">>
  /\ feed.success = FALSE
  /\ calls = <<"http_request">>
  /\ report.success = FALSE

\* the first link element of the item, a sequence of zero or one element
FirstLink == querySelector(probe.item, {"link"})

\* C9: for an item whose link element has an href attribute, link is the
\* href value, and link_rel / link_type are keys of the ItemFields only when
\* the link element has a rel / type attribute.
C9_LinkAttributes ==
  (pc = "return" /\ FirstLink # <<>> /\ "href" \in DOMAIN FirstLink[1].attrs) =>
    /\ "link" \in DOMAIN outcome /\ outcome["link"] = Str(FirstLink[1].attrs["href"])
    /\ "link_rel" \in DOMAIN outcome <=> "rel" \in DOMAIN FirstLink[1].attrs
    /\ "link_type" \in DOMAIN outcome <=> "type" \in DOMAIN FirstLink[1].attrs
    /\ "link_rel" \in DOMAIN outcome => outcome["link_rel"] = Str(FirstLink[1].attrs["rel"])
    /\ "link_type" \in DOMAIN outcome => outcome["link_type"] = Str(FirstLink[1].attrs["type"])

\* observe folded from no prior pattern over the values vs
RECURSIVE FoldObserve(_, _)
FoldObserve(vs, prior) ==
  IF vs = <<>> THEN prior
  ELSE FoldObserve(Tail(vs), <<analyzeFieldPattern(Head(vs), prior)>>)

RECURSIVE SumLengths(_)
SumLengths(vs) ==
  IF vs = <<>> THEN 0
  ELSE (IF Head(vs).kind = "string" THEN Len(Head(vs).s) ELSE 0) + SumLengths(Tail(vs))

\* the pattern without its running average
Shape(p) == [types |-> p.types, formats |-> p.formats, hasHTML |-> p.hasHTML,
             hasURL |-> p.hasURL, hasDate |-> p.hasDate, samples |-> p.samples]

\* C10: the fold of observe over a sequence of values gives the same types,
\* formats, flags and sample count for every order of the values, and an
\* avgLength equal to the arithmetic mean of the lengths of the strings.
C10_OrderIndependent ==
  (pc = "fold" /\ probe.next > Len(probe.values) /\ probe.values # <<>>) =>
    LET vs == probe.values
        n == Len(vs)
        strings == {i \in 1..n : vs[i].kind = "string"}
    IN  /\ \A q \in Permutations(1..n) :
             Shape(FoldObserve([i \in 1..n |-> vs[q[i]]], <<>>)[1]) = Shape(outcome[1])
        /\ strings # {} =>
             outcome[1].avgLength = Rat(SumLengths(vs), Cardinality(strings))

\* an instruction that reads the field of the slot through a selector
ReadsField(instruction, mapping) ==
  /\ instruction.kind = "expr"
  /\ mapping # Null
  /\ instruction.selector = mapping.field
  /\ instruction.selector \notin {"undefined", "null", ""}

\* C11: generateParsingInstructions returns no invalid field-access
\* expression: when a required slot (title, link, description, date) is null
\* it throws or puts a null instruction for it, and the image instruction is
\* null or an expression for the type of the image mapping.
C11_NoInvalidExpression ==
  pc = "return" =>
    \/ /\ outcome.kind = "throw"
       /\ \E slot \in Range(parsedSlots) : probe[slot] = Null
    \/ /\ outcome.kind = "instructions"
       /\ \A slot \in Range(parsedSlots) :
            \/ outcome[slot] = Null
            \/ ReadsField(outcome[slot], probe[slot])
       /\ \/ outcome.image = Null
          \/ /\ probe.image # Null
             /\ outcome.image.kind = "expr"
             /\ CASE probe.image.type = "media" -> outcome.image.selector = probe.image.source
                  [] probe.image.type = "enclosure" ->
                       outcome.image.selector = "enclosure[type^=\"image\"]"
                  [] probe.image.type = "html_extraction" ->
                       outcome.image.selector = "description"
                  [] OTHER -> FALSE

\* the date slot is null and the call threw
C11_Witness ==
  /\ pc = "return"
  /\ probe.title # Null /\ probe.link # Null /\ probe.description # Null
  /\ probe.date = Null
  /\ probe.image # Null /\ probe.image.type = "itunes"
  /\ outcome.kind = "throw"

\* the limit a candidate's reliability has to exceed
ImageLimit(source) == IF source = "extracted_images" THEN 30 ELSE 50

\* the candidate qualifies: its reliability exceeds its limit and, for
\* enclosure, the first sample has a type beginning with image
ImageQualifies(source, r, fs) ==
  /\ source \in DOMAIN r
  /\ RatGT(r[source], Num(ImageLimit(source)))
  /\ source = "enclosure" => FirstEnclosureIsImage(fs)

QualifyingImages(r, fs) == {source \in imageSources : ImageQualifies(source, r, fs)}

\* C12: findImageMapping returns absent if and only if no candidate
\* qualifies; otherwise it returns a qualifying candidate whose reliability
\* is the largest of the qualifying candidates' reliabilities.
C12_ImageMapping ==
  pc = "return" =>
    LET r == probe.fieldReliability
        q == QualifyingImages(r, probe.fieldSamples)
    IN  /\ outcome = Null <=> q = {}
        /\ outcome # Null =>
             /\ outcome.source \in q
             /\ outcome.reliability = r[outcome.source]
             /\ \A other \in q : RatGE(outcome.reliability, r[other])

\* three candidates qualify, two do not although they have a reliability
\* (media_content at its limit, enclosure with an audio type), and the most
\* reliable qualifying one is returned
C12_Witness ==
  /\ pc = "return"
  /\ DOMAIN probe.fieldReliability = imageSources
  /\ probe.fieldReliability["media_content"] = Num(50)
  /\ probe.fieldReliability["enclosure"] = Num(80)
  /\ ~FirstEnclosureIsImage(probe.fieldSamples)
  /\ QualifyingImages(probe.fieldReliability, probe.fieldSamples) =
       {"media_thumbnail", "extracted_images", "itunes_image"}
  /\ probe.fieldReliability["extracted_images"] = Num(50)
  /\ probe.fieldReliability["itunes_image"] = Num(80)
  /\ probe.fieldReliability["media_thumbnail"] = Num(60)
  /\ outcome # Null /\ outcome.source = "itunes_image"

\* no candidate qualifies although every one has a reliability
C12_WitnessAbsent ==
  /\ pc = "return"
  /\ DOMAIN probe.fieldReliability = imageSources
  /\ outcome = Null

\* the fields extractAllFields records for an element of the given tag: the
\* tag itself when it is a standard field, and the flattened name of every
\* namespaced selector that matches it
RecordedFields(tag) ==
  {f \in Range(standardFields) : f = LocalName(tag)}
    \cup {namespaceElements[i].field : i \in {j \in 1..Len(namespaceElements) :
                                                 LocalName(tag) \in namespaceElements[j].names}}

\* the field the deep scan synthesizes from an element of the given tag
AutoField(tag) == "auto_" \o ToLowerCase(tag)

\* C13: with deepScan enabled, no ItemFields hold both a recorded field for
\* an element and the auto_<tag> field synthesized from the tag of that same
\* element.
C13_NoAutoDuplicate ==
  (pc = "return" /\ probe.deepScan) =>
    \A i \in 1..Len(Descendants(probe.item)) :
      LET el == Descendants(probe.item)[i]
      IN  ~ /\ AutoField(el.tag) \in DOMAIN outcome
            /\ \E f \in RecordedFields(el.tag) : f \in DOMAIN outcome

\* the sampled items in which field f was found with a non-empty value
NonEmptyOccurrences(f) ==
  {i \in 1..Len(analysis.items) : f \in DOMAIN SampledFields(i) /\ Truthy(SampledFields(i)[f])}

\* C14: the reliability of a field is 100 times the number of sampled items
\* in which the field was found non-empty, divided by the number of sampled
\* items; an item where the field is empty or null is no occurrence.
C14_NonEmptyOccurrences ==
  (analysis # Null /\ Len(analysis.items) > 0) =>
    \A f \in DOMAIN analysis.fieldReliability :
      analysis.fieldReliability[f] =
        RatDiv(Num(100 * Cardinality(NonEmptyOccurrences(f))), Num(Len(analysis.items)))

\* C15: the payload storeMappingConfig builds carries the quality score of
\* the analysis it is given: quality_score equals the qualityScore that
\* validateDataQuality computes for that analysis.
C15_StoredQualityScore ==
  pc = "return" =>
    outcome.data.quality_score = validateDataQuality(probe.analysis).qualityScore

\* the keys of the persistent cache of a client
Persisted(fn) ==
  IF fn = "fetchRSSFeeds" THEN DOMAIN loadCache ELSE DOMAIN loadPages

\* calls i and j of the same client overlapped (i was at its await when j
\* started), fetched different keys, and both have returned
OverlappedApart(i, j) ==
  /\ i \in tasks[j].during
  /\ tasks[i].fn = tasks[j].fn
  /\ tasks[i].pc = "done" /\ tasks[j].pc = "done"
  /\ Range(tasks[i].args) \cap Range(tasks[j].args) = {}

\* C16: once two overlapping calls of fetchRSSFeeds (or of fetchCardPage)
\* that fetch different keys have both completed, the persistent cache
\* holds the entries written by both.
C16_NoLostEntries ==
  \A i, j \in 1..Len(tasks) :
    OverlappedApart(i, j) =>
      (tasks[i].wrote \cup tasks[j].wrote) \subseteq Persisted(tasks[i].fn)

\* C17: every requested feed that had a cache entry is in the result of
\* fetchRSSFeeds: a fresh entry is returned from the cache and is not in the
\* network request, and a stale entry the server left out of its response
\* is returned from the cached data.
C17_CachedFeedsReturned ==
  \A i \in 1..Len(tasks) :
    (tasks[i].fn = "fetchRSSFeeds" /\ tasks[i].pc = "done") =>
      LET t == tasks[i]
      IN  \A name \in Range(t.args) \cap DOMAIN t.cache :
            /\ name \in DOMAIN t.result
            /\ IsFresh(t.cache, name, t.now) =>
                 /\ t.result[name] = t.cache[name].data
                 /\ name \notin Range(t.stale)
            /\ (name \in Range(t.stale) /\ name \notin t.wrote) =>
                 t.result[name] = t.cache[name].data

====
